---- MODULE Spec2Model ----
(***************************************************************************)
(* Model of the asynchronous CZDS client (czds/client.py) driven by the    *)
(* command line entry point (czds/__main__.py): one run of                 *)
(*   main -> async with CZDS(...) -> download_zones -> download_zone       *)
(* Tasks are asyncio tasks: they interleave only at suspension points      *)
(* (semaphore acquire, HTTP request, chunk read/write, retry delay).       *)
(* The transport, the file contents and the gzip codec are the             *)
(* environment: their outcomes are chosen nondeterministically.            *)
(*                                                                         *)
(* Spec     is the command line run: authenticate, then get_report or      *)
(*          download_zones with its semaphore and gather, __aexit__, the   *)
(*          end of asyncio.run.                                            *)
(* SpecTask is one call of download_zone without a semaphore that runs to  *)
(*          its end (it is never cancelled and the session stays open).    *)
(***************************************************************************)
EXTENDS Integers, Sequences, FiniteSets, TLC

\* ---------------------------------------------------------------- bounds
\* number of zone links fetch_zone_links may return
NumLinks == 2
\* largest value of the --concurrency option explored (1..MaxConcurrency)
MaxConcurrency == 2
\* largest body length (in chunks) and largest Content-Length explored
MaxSize == 1
\* largest length (in characters) of the report text returned by the API
MaxText == 3
\* largest length (in characters) of the username
MaxUser == 1

\* ------------------------------------------------------ program constants
\* client.py:190
max_retries == 3

Tasks == 1..NumLinks

\* A file on disk is <<>> (no such file) or <<n>> (a file holding n chunks).
\* A Content-Length header is <<>> (header absent) or <<n>>.
Absent == <<>>
File(n) == <<n>>
Exists(f) == f # Absent
Size(f) == f[1]

VARIABLES
    entry,        \* "cli": main(); "direct": download_zone called without semaphore
    concurrency,  \* args.concurrency
    decompress,   \* args.decompress
    cleanup,      \* not args.keep
    report,       \* args.report
    zones,        \* args.zones
    username,     \* self.username
    scrub,        \* args.scrub
    format,       \* args.format
    mainPc,       \* position of main()
    session,      \* self.session: "open" | "closed"
    headers,      \* self.headers: "none" | "bearer"
    dz,           \* download_zones: "notcalled" | "running" | "returned" | "raised_start" | "raised_task"
    nlinks,       \* len(zone_links)
    zone_links,   \* the list fetch_zone_links returned; task t downloads zone_links[t]
    dz_value,     \* what download_zones returned to its caller
    mainExc,      \* the exception main() raises: "none" | "auth" | "report" | "zones"
    auth_calls,   \* history: calls of authenticate
    requests,     \* history: kinds of GET requests main issued ("links", "report")
    report_text,  \* body of the report response
    content,      \* what get_report returned
    semaphore,    \* asyncio.Semaphore._value
    waiters,      \* asyncio.Semaphore._waiters (FIFO)
    acquires,     \* history: times the task obtained a permit of the semaphore
    releases,     \* history: times the task gave a permit back
    started,      \* number of tasks whose coroutine has begun to run
    tpc,          \* position of each download_zone task
    attempt,      \* loop variable of _download
    gets,         \* number of GET requests issued by the task
    clen,         \* Content-Length header of the current response
    total_size,   \* bytes written in the current attempt
    hasPath,      \* 'filepath' in locals()
    gzFile,       \* the file at filepath (the downloaded, compressed file)
    outFile,      \* the file at filepath[:-3] (the decompressed file)
    terr,         \* kind of the error the task terminated with
    transport_failures  \* history: attempts of the task ended by ClientError / TimeoutError

vars == <<entry, concurrency, decompress, cleanup, report, zones, username, scrub, format,
          mainPc, session, headers, dz, nlinks, zone_links, dz_value, mainExc, auth_calls,
          requests, report_text, content,
          semaphore, waiters, acquires, releases, started, tpc, attempt, gets, clen, total_size,
          hasPath, gzFile, outFile, terr, transport_failures>>

config == <<entry, concurrency, decompress, cleanup, report, zones, username, scrub, format>>
mainVars == <<mainPc, session, headers, dz, nlinks, zone_links, dz_value, mainExc, auth_calls,
              requests, report_text, content>>
reportVars == <<report_text, content>>
semVars == <<semaphore, waiters, acquires, releases>>
fileVars == <<gzFile, outFile>>

\* ------------------------------------------------------------ report text
\* A text is a sequence of characters. The characters explored: a lower-case
\* letter (one that occurs in the replacement token), an upper-case letter, the
\* space, the comma and the newline.
Chars == {"n", "N", " ", ",", "\n"}

\* the replacement of get_report, 'nobody@no.name'
Token == <<"n", "o", "b", "o", "d", "y", "@", "n", "o", ".", "n", "a", "m", "e">>

Strings(n) == UNION {[1..k -> Chars] : k \in 0..n}

\* bodies the report endpoint may answer with
Texts == Strings(MaxText)

\* usernames: a client with an empty username does not get authenticated
Usernames == Strings(MaxUser) \ {<<>>}

\* the choices of --format
Formats == {"csv", "json"}

\* s[i..] starts with u
StartsWith(s, i, u) ==
    /\ i + Len(u) - 1 <= Len(s)
    /\ \A j \in 1..Len(u) : s[i + j - 1] = u[j]

\* `u in s`
Contains(s, u) == \E i \in 1..(Len(s) + 1) : StartsWith(s, i, u)

\* str.replace(old, new) for a non-empty old: the occurrences of old are found
\* from left to right, without overlap, and each is replaced by new; the
\* result is not searched again
RECURSIVE ReplaceFrom(_, _, _, _)
ReplaceFrom(s, i, old, new) ==
    IF i > Len(s) THEN <<>>
    ELSE IF StartsWith(s, i, old) THEN new \o ReplaceFrom(s, i + Len(old), old, new)
    ELSE <<s[i]>> \o ReplaceFrom(s, i + 1, old, new)

\* str.replace(old, new) for the empty old: new is inserted before every
\* character and at the end
RECURSIVE Interleave(_, _)
Interleave(s, new) ==
    IF s = <<>> THEN new ELSE new \o <<Head(s)>> \o Interleave(Tail(s), new)

replace(s, old, new) == IF old = <<>> THEN Interleave(s, new) ELSE ReplaceFrom(s, 1, old, new)

\* str.strip(): leading and trailing whitespace removed
Whitespace == {" ", "\n"}

RECURSIVE lstrip(_)
lstrip(s) == IF s # <<>> /\ Head(s) \in Whitespace THEN lstrip(Tail(s)) ELSE s

RECURSIVE rstrip(_)
rstrip(s) ==
    IF s # <<>> /\ s[Len(s)] \in Whitespace THEN rstrip(SubSeq(s, 1, Len(s) - 1)) ELSE s

strip(s) == rstrip(lstrip(s))

\* str.split(sep) for a one-character sep: empty fields are kept, ''.split(sep) = ['']
RECURSIVE split(_, _)
split(s, sep) ==
    IF \A i \in 1..Len(s) : s[i] # sep
    THEN <<s>>
    ELSE LET i == CHOOSE k \in 1..Len(s) : s[k] = sep /\ \A j \in 1..(k - 1) : s[j] # sep
         IN <<SubSeq(s, 1, i - 1)>> \o split(SubSeq(s, i + 1, Len(s)), sep)

\* dict(zip(header, row)): zip stops at the shorter of the two, a repeated key
\* keeps its last value
DictZip(header, row) ==
    LET m == IF Len(header) <= Len(row) THEN Len(header) ELSE Len(row)
        last(k) == CHOOSE i \in 1..m : header[i] = k /\ \A j \in (i + 1)..m : header[j] # k
    IN [k \in {header[i] : i \in 1..m} |-> row[last(k)]]

\* the list of lists `[row.split(',') for row in content.strip().split('\n')]`
Rows(text) ==
    LET lines == split(strip(text), "\n")
    IN [i \in 1..Len(lines) |-> split(lines[i], ",")]

\* `[dict(zip(header, row)) for row in rows[1:]]` with header = rows[0]
JsonRows(text) ==
    LET rows == Rows(text)
    IN [i \in 1..(Len(rows) - 1) |-> DictZip(rows[1], rows[i + 1])]

\* `if scrub: content = content.replace(self.username, 'nobody@no.name')`
Scrubbed(text) == IF scrub THEN replace(text, username, Token) ELSE text

\* the value get_report returns for the response body text (lines 119-140)
NoContent == [kind |-> "none", text |-> <<>>, rows |-> <<>>]
get_report(text) ==
    IF format = "json"
    THEN [kind |-> "json", text |-> <<>>, rows |-> JsonRows(Scrubbed(text))]
    ELSE [kind |-> "csv", text |-> Scrubbed(text), rows |-> <<>>]

\* the values of download_zones: nothing yet, and Python's None
NotReturned == [kind |-> "unset", outcomes |-> {}]
None == [kind |-> "None", outcomes |-> {}]

\* ------------------------------------------------------------------ Init
\* nothing listed, downloaded or reported yet
NoTasks ==
    /\ nlinks = 0
    /\ zone_links = <<>>
    /\ dz = "notcalled"
    /\ dz_value = NotReturned
    /\ report_text = <<>>
    /\ content = NoContent

\* main --report: get_report is called and main returns; the zone options
\* are not read and stay at one value
ReportOptions ==
    /\ report = TRUE
    /\ zones = FALSE
    /\ username \in Usernames
    /\ scrub \in BOOLEAN
    /\ format \in Formats
    /\ concurrency = 1
    /\ decompress = FALSE
    /\ cleanup = TRUE

\* the report options of a run that does not read them
NoReportOptions ==
    /\ report = FALSE
    /\ username = <<"n">>
    /\ scrub = FALSE
    /\ format = "csv"

\* main --zones
ZonesOptions ==
    /\ NoReportOptions
    /\ zones = TRUE
    /\ concurrency \in 1..MaxConcurrency
    /\ decompress \in BOOLEAN
    /\ cleanup \in BOOLEAN

\* main with neither --report nor --zones
NoOptions ==
    /\ NoReportOptions
    /\ zones = FALSE
    /\ concurrency = 1
    /\ decompress = FALSE
    /\ cleanup = TRUE

\* State after argument parsing and CZDS.__init__ (session created, no headers).
Init ==
    /\ entry = "cli"
    /\ (ReportOptions \/ ZonesOptions \/ NoOptions)
    /\ mainPc = "enter"
    /\ session = "open"
    /\ headers = "none"
    /\ mainExc = "none"
    /\ auth_calls = 0
    /\ requests = {}
    /\ NoTasks
    /\ semaphore = 0
    /\ waiters = <<>>
    /\ acquires = [t \in Tasks |-> 0]
    /\ releases = [t \in Tasks |-> 0]
    /\ started = 0
    /\ tpc = [t \in Tasks |-> "none"]
    /\ attempt = [t \in Tasks |-> 0]
    /\ gets = [t \in Tasks |-> 0]
    /\ clen = [t \in Tasks |-> Absent]
    /\ total_size = [t \in Tasks |-> 0]
    /\ hasPath = [t \in Tasks |-> FALSE]
    /\ gzFile = [t \in Tasks |-> Absent]
    /\ outFile = [t \in Tasks |-> Absent]
    /\ terr = [t \in Tasks |-> "none"]
    /\ transport_failures = [t \in Tasks |-> 0]


\* ------------------------------------------------------- task positions
\* "none"       no task for this index
\* "created"    coroutine created by download_zones, not yet run
\* "waiting"    suspended in semaphore.acquire()
\* "acquired"   woken with the permit, not yet resumed
\* "request"    GET issued, awaiting the response
\* "streaming"  destination file open, body being written
\* "verify"     stream exhausted and file closed
\* "sleep"      in asyncio.sleep(retry_delay)
\* "decompress" inside gzip_decompress, output file open
\* "gz_raised"  gzip_decompress has raised, _download has not handled it yet
\* "done" | "failed" | "cancelled"   terminal
Holding == {"acquired", "request", "streaming", "verify", "sleep", "decompress", "gz_raised"}
Terminal == {"done", "failed", "cancelled"}
Live == Holding \cup {"created", "waiting"}

Created == 1..nlinks
InDownload == {t \in Tasks : tpc[t] \in Holding}

\* ------------------------------------------------------------ semaphore
\* asyncio.Semaphore.locked(): no permit, or somebody is already queued
Locked == semaphore = 0 \/ waiters # <<>>

\* mutant of Terminate: the permit is not given back when the task ends
TerminateNoRelease(t, pc, err) ==
    /\ terr' = [terr EXCEPT ![t] = err]
    /\ tpc' = [tpc EXCEPT ![t] = pc]
    /\ UNCHANGED <<waiters, semaphore, acquires, releases>>

\* End of download_zone (lines 285-289) when task t ends in position pc with
\* error kind err. With a semaphore, `async with semaphore` releases it: the
\* permit goes to the first waiter, otherwise back to the counter.
Terminate(t, pc, err) ==
    /\ terr' = [terr EXCEPT ![t] = err]
    /\ IF entry = "direct"
       THEN /\ tpc' = [tpc EXCEPT ![t] = pc]
            /\ UNCHANGED <<waiters, semaphore, acquires, releases>>
       ELSE IF waiters # <<>>
       THEN /\ tpc' = [tpc EXCEPT ![t] = pc, ![Head(waiters)] = "acquired"]
            /\ waiters' = Tail(waiters)
            /\ semaphore' = semaphore
            /\ releases' = [releases EXCEPT ![t] = @ + 1]
            /\ acquires' = [acquires EXCEPT ![Head(waiters)] = @ + 1]
       ELSE /\ tpc' = [tpc EXCEPT ![t] = pc]
            /\ waiters' = waiters
            /\ semaphore' = semaphore + 1
            /\ releases' = [releases EXCEPT ![t] = @ + 1]
            /\ acquires' = acquires

\* --------------------------------------------------------------- main()
taskVars == <<started, tpc, attempt, gets, clen, total_size, hasPath, terr, transport_failures>>

\* mutant of AuthenticateFail: the failure is swallowed and the body runs
\* without the bearer header
AuthenticateFailSwallowed ==
    /\ mainPc = "enter"
    /\ auth_calls' = auth_calls + 1
    /\ mainPc' = "body"
    /\ UNCHANGED <<config, session, headers, dz, nlinks, zone_links, dz_value, mainExc, requests,
                   reportVars, semVars, taskVars, fileVars>>

\* __aenter__ -> authenticate succeeds: the bearer header is set
AuthenticateOk ==
    /\ mainPc = "enter"
    /\ auth_calls' = auth_calls + 1
    /\ headers' = "bearer"
    /\ mainPc' = "body"
    /\ UNCHANGED <<config, session, dz, nlinks, zone_links, dz_value, mainExc, requests,
                   reportVars, semVars, taskVars, fileVars>>

\* authenticate raises (status # 200 or transport error): __aenter__ raises,
\* the body and __aexit__ are skipped
AuthenticateFail ==
    /\ mainPc = "enter"
    /\ auth_calls' = auth_calls + 1
    /\ mainExc' = "auth"
    /\ mainPc' = "end"
    /\ UNCHANGED <<config, session, headers, dz, nlinks, zone_links, dz_value, requests,
                   reportVars, semVars, taskVars, fileVars>>

\* `if args.report`: get_report answers 200 with the body text; the report is
\* scrubbed, converted, saved and returned, and main returns
GetReportOk(text) ==
    /\ mainPc = "body"
    /\ report
    /\ requests' = requests \cup {"report"}
    /\ report_text' = text
    /\ content' = get_report(text)
    /\ mainPc' = "aexit"
    /\ UNCHANGED <<config, session, headers, dz, nlinks, zone_links, dz_value, mainExc, auth_calls,
                   semVars, taskVars, fileVars>>

\* get_report raises (status # 200, transport error, the file cannot be
\* written): main raises 'Failed to download zone stats report'
GetReportFail ==
    /\ mainPc = "body"
    /\ report
    /\ requests' = requests \cup {"report"}
    /\ mainExc' = "report"
    /\ mainPc' = "aexit"
    /\ UNCHANGED <<config, session, headers, dz, nlinks, zone_links, dz_value, auth_calls,
                   reportVars, semVars, taskVars, fileVars>>

\* neither --report nor --zones: the body of `async with` does nothing
NoBody ==
    /\ mainPc = "body"
    /\ ~report
    /\ ~zones
    /\ mainPc' = "aexit"
    /\ UNCHANGED <<config, session, headers, dz, nlinks, zone_links, dz_value, mainExc, auth_calls,
                   requests, reportVars, semVars, taskVars, fileVars>>

\* download_zones cannot start: os.makedirs raises (nothing was requested) or
\* fetch_zone_links raises (the request for the links was issued)
DownloadZonesFailStart ==
    /\ mainPc = "body"
    /\ ~report
    /\ zones
    /\ requests' \in {requests, requests \cup {"links"}}
    /\ dz' = "raised_start"
    /\ mainExc' = "zones"
    /\ mainPc' = "aexit"
    /\ UNCHANGED <<config, session, headers, nlinks, zone_links, dz_value, auth_calls,
                   reportVars, semVars, taskVars, fileVars>>

\* the lists fetch_zone_links may return: the URLs 1..n (numbered in their
\* lexicographic order) in any order
LinkLists ==
    UNION {{l \in [1..n -> 1..n] : \A i, j \in 1..n : l[i] = l[j] => i = j} : n \in 0..NumLinks}

\* download_zones up to the gather: links fetched, semaphore created, one
\* coroutine created per link, in the order of the list (line 314)
DownloadZonesStart(links) ==
    /\ mainPc = "body"
    /\ ~report
    /\ zones
    /\ requests' = requests \cup {"links"}
    /\ dz' = "running"
    /\ zone_links' = links
    /\ nlinks' = Len(links)
    /\ semaphore' = concurrency
    /\ waiters' = <<>>
    /\ tpc' = [t \in Tasks |-> IF t <= Len(links) THEN "created" ELSE "none"]
    /\ mainPc' = "gather"
    /\ UNCHANGED <<acquires, releases, config, session, headers, dz_value, mainExc, auth_calls, reportVars, started,
                   transport_failures, attempt, gets, clen, total_size, hasPath, fileVars, terr>>

\* loop.call_soon is FIFO: a task made ready by a release() (the task that
\* failed released the semaphore before its exception reached gather) resumes
\* before the awaiter of gather does
ReadyTasksHaveRun == \A t \in Created : tpc[t] \notin {"created", "acquired"}

\* asyncio.gather without return_exceptions: the first exception of a task is
\* propagated to the awaiter at once; the other tasks are left running
GatherRaises == \E t \in Created : tpc[t] = "failed"
GatherReturns == \A t \in Created : tpc[t] = "done"

\* the exception reaches main, which raises 'Failed to download zone files'
GatherRaise ==
    /\ mainPc = "gather"
    /\ GatherRaises
    /\ ReadyTasksHaveRun
    /\ dz' = "raised_task"
    /\ mainExc' = "zones"
    /\ mainPc' = "aexit"
    /\ UNCHANGED <<config, session, headers, nlinks, zone_links, dz_value, auth_calls, requests,
                   reportVars, semVars, taskVars, fileVars>>

\* every task returned: the list of paths gather returns is dropped (line
\* 317) and download_zones returns None
GatherReturn ==
    /\ mainPc = "gather"
    /\ GatherReturns
    /\ dz' = "returned"
    /\ dz_value' = None
    /\ mainPc' = "aexit"
    /\ UNCHANGED <<config, session, headers, nlinks, zone_links, mainExc, auth_calls, requests,
                   reportVars, semVars, taskVars, fileVars>>

\* __aexit__ -> close(): the session is closed, whatever the body did
AExit ==
    /\ mainPc = "aexit"
    /\ session' = "closed"
    /\ mainPc' = "teardown"
    /\ UNCHANGED <<config, headers, dz, nlinks, zone_links, dz_value, mainExc, auth_calls, requests,
                   reportVars, semVars, taskVars, fileVars>>

\* asyncio.run() finishing after main() ended: every task still pending is
\* cancelled (CancelledError is no Exception: no handler of _download runs,
\* the permit of a task inside `async with semaphore` is given back by its
\* __aexit__, a task still queued holds none)
Teardown ==
    /\ mainPc = "teardown"
    /\ mainPc' = "end"
    /\ tpc' = [t \in Tasks |-> IF tpc[t] \in Live THEN "cancelled" ELSE tpc[t]]
    /\ semaphore' = semaphore + Cardinality(InDownload)
    /\ waiters' = <<>>
    /\ releases' = [t \in Tasks |-> IF t \in InDownload THEN releases[t] + 1 ELSE releases[t]]
    /\ UNCHANGED <<acquires, config, session, headers, dz, nlinks, zone_links, dz_value, mainExc, auth_calls,
                   requests, reportVars, started, transport_failures, attempt, gets, clen,
                   total_size, hasPath, fileVars, terr>>


\* ------------------------------------------------- download_zone helpers
\* mutant of AttemptsLeft: off by one, `attempt < max_retries`
AttemptsLeftOffByOne(t) == attempt[t] < max_retries

\* `attempt + 1 < max_retries`
AttemptsLeft(t) == attempt[t] + 1 < max_retries

\* `int(response.headers.get('Content-Length', 0))`
ExpectedSize(h) == IF h = Absent THEN 0 ELSE Size(h)
expected_size(t) == ExpectedSize(clen[t])

\* mutant of SizeMismatch: the `expected_size and` guard dropped
SizeMismatchUnguarded(t) == total_size[t] # expected_size(t)

\* `expected_size and total_size != expected_size`
SizeMismatch(t) == expected_size(t) # 0 /\ total_size[t] # expected_size(t)

\* mutant of PathCleanup: the handler re-raises without removing the file
PathCleanupNever(has, f) == f

\* `if 'filepath' in locals() and os.path.exists(filepath): os.remove(filepath)`
PathCleanup(has, f) == IF has /\ Exists(f) THEN Absent ELSE f

\* mutant of AfterDecompress: the cleanup flag is ignored
AfterDecompressKeep(f) == f

\* `if cleanup: os.remove(filepath)` at the end of gzip_decompress
AfterDecompress(f) == IF cleanup THEN Absent ELSE f

\* mutant of RemovePartialOutput: the handler leaves the partial output
RemovePartialOutputNever(f) == f

\* `if os.path.exists(output_path): os.remove(output_path)` in the handler
\* of gzip_decompress
RemovePartialOutput(f) == IF Exists(f) THEN Absent ELSE f

\* the event loop runs the first step of every task gather created before it
\* polls for I/O: no response arrives while a coroutine has not begun
AllStarted == started = nlinks

\* `except Exception` of _download (lines 279-283), then the release of the
\* semaphore: the task ends failed
RaiseOut(t, err) ==
    /\ gzFile' = [gzFile EXCEPT ![t] = PathCleanup(hasPath[t], gzFile[t])]
    /\ Terminate(t, "failed", err)

\* top of the retry loop: session.get() raises RuntimeError at once on a
\* closed session, otherwise the GET is issued
IssueGet(t) ==
    IF session = "closed"
    THEN /\ gets' = gets
         /\ RaiseOut(t, "session_closed")
    ELSE /\ gets' = [gets EXCEPT ![t] = @ + 1]
         /\ tpc' = [tpc EXCEPT ![t] = "request"]
         /\ UNCHANGED <<semVars, gzFile, terr>>

\* mutant of RetryOrRaise: the permit is given back for the time of the
\* retry delay
RetryOrRaiseReleasing(t, err) ==
    IF AttemptsLeft(t)
    THEN /\ tpc' = [tpc EXCEPT ![t] = "sleep"]
         /\ semaphore' = semaphore + 1
         /\ UNCHANGED <<waiters, acquires, releases, gzFile, terr>>
    ELSE RaiseOut(t, err)

\* `await asyncio.sleep(retry_delay)` before the next iteration, or the
\* terminal failure when this was the last attempt
RetryOrRaise(t, err) ==
    IF AttemptsLeft(t)
    THEN /\ tpc' = [tpc EXCEPT ![t] = "sleep"]
         /\ UNCHANGED <<semVars, gzFile, terr>>
    ELSE RaiseOut(t, err)

\* ----------------------------------------------------- download_zone task
\* mutant of TaskStart: the download starts without acquiring the semaphore
TaskStartUnbounded(t) ==
    /\ mainPc = "gather"
    /\ tpc[t] = "created"
    /\ t = started + 1
    /\ started' = t
    /\ gets' = [gets EXCEPT ![t] = @ + 1]
    /\ tpc' = [tpc EXCEPT ![t] = "request"]
    /\ UNCHANGED <<config, mainVars, semVars, attempt, clen, total_size, hasPath, fileVars,
                   terr, transport_failures>>

\* first step of a task: `async with semaphore`, then the first GET
TaskStart(t) ==
    /\ mainPc = "gather"
    /\ tpc[t] = "created"
    /\ t = started + 1
    /\ started' = t
    /\ IF Locked
       THEN /\ waiters' = Append(waiters, t)
            /\ tpc' = [tpc EXCEPT ![t] = "waiting"]
            /\ UNCHANGED <<semaphore, gets, acquires>>
       ELSE /\ semaphore' = semaphore - 1
            /\ acquires' = [acquires EXCEPT ![t] = @ + 1]
            /\ gets' = [gets EXCEPT ![t] = @ + 1]
            /\ tpc' = [tpc EXCEPT ![t] = "request"]
            /\ UNCHANGED waiters
    /\ UNCHANGED releases
    /\ UNCHANGED <<config, mainVars, attempt, clen, total_size, hasPath, fileVars, terr,
                   transport_failures>>

\* download_zone called with semaphore=None (lines 288-289): _download starts
DirectStart(t) ==
    /\ entry = "direct"
    /\ tpc[t] = "created"
    /\ IssueGet(t)
    /\ UNCHANGED <<config, mainVars, started, transport_failures, attempt, clen, total_size, hasPath, outFile>>

\* a task woken by release() resumes inside the semaphore and starts _download
Resume(t) ==
    /\ tpc[t] = "acquired"
    /\ IssueGet(t)
    /\ UNCHANGED <<config, mainVars, started, transport_failures, attempt, clen, total_size, hasPath, outFile>>

\* the retry delay elapses: next iteration of `for attempt in range(max_retries)`
SleepDone(t) ==
    /\ tpc[t] = "sleep"
    /\ attempt' = [attempt EXCEPT ![t] = @ + 1]
    /\ IssueGet(t)
    /\ UNCHANGED <<config, mainVars, started, transport_failures, clen, total_size, hasPath, outFile>>

\* session.get raises aiohttp.ClientError / asyncio.TimeoutError (lines 270-277)
RequestError(t) ==
    /\ AllStarted
    /\ tpc[t] = "request"
    /\ transport_failures' = [transport_failures EXCEPT ![t] = @ + 1]
    /\ RetryOrRaise(t, "transport")
    /\ UNCHANGED <<config, mainVars, started, attempt, gets, clen, total_size, hasPath, outFile>>

\* mutant of ResponseBadStatus: a non-200 status is fatal at once
ResponseBadStatusFatal(t) ==
    /\ AllStarted
    /\ tpc[t] = "request"
    /\ RaiseOut(t, "status")
    /\ UNCHANGED <<config, mainVars, started, transport_failures, attempt, gets, clen, total_size, hasPath, outFile>>

\* response.status != 200 (lines 198-205)
ResponseBadStatus(t) ==
    /\ AllStarted
    /\ tpc[t] = "request"
    /\ RetryOrRaise(t, "status")
    /\ UNCHANGED <<config, mainVars, started, transport_failures, attempt, gets, clen, total_size, hasPath, outFile>>

\* mutant of ResponseNoDisposition: the missing header is treated like a
\* transient failure
ResponseNoDispositionRetried(t) ==
    /\ AllStarted
    /\ tpc[t] = "request"
    /\ RetryOrRaise(t, "protocol")
    /\ UNCHANGED <<config, mainVars, started, transport_failures, attempt, gets, clen, total_size, hasPath, outFile>>

\* status 200 without Content-Disposition: ValueError (lines 212-215)
ResponseNoDisposition(t) ==
    /\ AllStarted
    /\ tpc[t] = "request"
    /\ RaiseOut(t, "protocol")
    /\ UNCHANGED <<config, mainVars, started, transport_failures, attempt, gets, clen, total_size, hasPath, outFile>>

\* status 200 with Content-Disposition and Content-Length header h (absent or
\* a number): filepath is bound and the destination is opened with 'wb'
ResponseOk(t, h) ==
    /\ AllStarted
    /\ tpc[t] = "request"
    /\ clen' = [clen EXCEPT ![t] = h]
    /\ hasPath' = [hasPath EXCEPT ![t] = TRUE]
    /\ gzFile' = [gzFile EXCEPT ![t] = File(0)]
    /\ total_size' = [total_size EXCEPT ![t] = 0]
    /\ tpc' = [tpc EXCEPT ![t] = "streaming"]
    /\ UNCHANGED <<config, mainVars, semVars, started, transport_failures, attempt, gets, outFile, terr>>

\* one chunk of the body is written (lines 224-226)
StreamChunk(t) ==
    /\ tpc[t] = "streaming"
    /\ total_size[t] < MaxSize
    /\ total_size' = [total_size EXCEPT ![t] = @ + 1]
    /\ gzFile' = [gzFile EXCEPT ![t] = File(total_size[t] + 1)]
    /\ UNCHANGED <<config, mainVars, semVars, started, transport_failures, tpc, attempt, gets, clen, hasPath,
                   outFile, terr>>

\* ClientError / TimeoutError while iterating the body (lines 232-238): the
\* file is closed and left as it is when a retry follows; on the last attempt
\* the error reaches the handler of lines 270-275
StreamError(t) ==
    /\ tpc[t] = "streaming"
    /\ transport_failures' = [transport_failures EXCEPT ![t] = @ + 1]
    /\ RetryOrRaise(t, "transport")
    /\ UNCHANGED <<config, mainVars, started, attempt, gets, clen, total_size, hasPath, outFile>>

\* the body is exhausted and the destination file is closed
StreamEnd(t) ==
    /\ tpc[t] = "streaming"
    /\ tpc' = [tpc EXCEPT ![t] = "verify"]
    /\ UNCHANGED <<config, mainVars, semVars, started, transport_failures, attempt, gets, clen, total_size,
                   hasPath, fileVars, terr>>

\* size verification fails (lines 241-249): the file is removed, then retry or raise
VerifyMismatch(t) ==
    /\ tpc[t] = "verify"
    /\ SizeMismatch(t)
    /\ gzFile' = [gzFile EXCEPT ![t] = Absent]
    /\ IF AttemptsLeft(t)
       THEN /\ tpc' = [tpc EXCEPT ![t] = "sleep"]
            /\ UNCHANGED <<semVars, terr>>
       ELSE Terminate(t, "failed", "incomplete")
    /\ UNCHANGED <<config, mainVars, started, transport_failures, attempt, gets, clen, total_size, hasPath, outFile>>

\* verification passes and no decompression was asked for: `return filepath`
VerifyReturn(t) ==
    /\ tpc[t] = "verify"
    /\ ~SizeMismatch(t)
    /\ ~decompress
    /\ Terminate(t, "done", "none")
    /\ UNCHANGED <<config, mainVars, started, transport_failures, attempt, gets, clen, total_size, hasPath, fileVars>>

\* the gzip probe `test_gzip.read(1)` raises: BadGzipFile / OSError are handled
\* at lines 262-266 (remove, raise Exception), anything else (EOFError) at
\* lines 279-283 (remove, re-raise); both remove the download and end the task
ProbeFail(t) ==
    /\ tpc[t] = "verify"
    /\ ~SizeMismatch(t)
    /\ decompress
    /\ gzFile' = [gzFile EXCEPT ![t] = Absent]
    /\ Terminate(t, "failed", "decompress")
    /\ UNCHANGED <<config, mainVars, started, transport_failures, attempt, gets, clen, total_size, hasPath, outFile>>

\* the probe passes: gzip_decompress opens the input and creates the output
ProbeOk(t) ==
    /\ tpc[t] = "verify"
    /\ ~SizeMismatch(t)
    /\ decompress
    /\ outFile' = [outFile EXCEPT ![t] = File(0)]
    /\ tpc' = [tpc EXCEPT ![t] = "decompress"]
    /\ UNCHANGED <<config, mainVars, semVars, started, transport_failures, attempt, gets, clen, total_size,
                   hasPath, gzFile, terr>>

\* gzip_decompress copies one chunk (lines 159-162); the decompressed data
\* is taken to have as many chunks as the compressed file
DecompressChunk(t) ==
    /\ tpc[t] = "decompress"
    /\ Size(outFile[t]) < Size(gzFile[t])
    /\ outFile' = [outFile EXCEPT ![t] = File(Size(@) + 1)]
    /\ UNCHANGED <<config, mainVars, semVars, started, transport_failures, tpc, attempt, gets, clen, total_size,
                   hasPath, gzFile, terr>>

\* gz.read, f_out.write or the final os.remove raises inside gzip_decompress
\* (lines 168-174): the output is removed and Exception is raised
DecompressError(t) ==
    /\ tpc[t] = "decompress"
    /\ outFile' = [outFile EXCEPT ![t] = RemovePartialOutput(@)]
    /\ tpc' = [tpc EXCEPT ![t] = "gz_raised"]
    /\ UNCHANGED <<config, mainVars, semVars, started, transport_failures, attempt, gets, clen, total_size,
                   hasPath, gzFile, terr>>

\* mutant of DecompressRaised: the failed decompression is retried as a
\* new download
DecompressRaisedRetried(t) ==
    /\ tpc[t] = "gz_raised"
    /\ RetryOrRaise(t, "decompress")
    /\ UNCHANGED <<config, mainVars, started, transport_failures, attempt, gets, clen, total_size, hasPath, outFile>>

\* the Exception of gzip_decompress is not a BadGzipFile / OSError: it reaches
\* lines 279-283 of _download
DecompressRaised(t) ==
    /\ tpc[t] = "gz_raised"
    /\ RaiseOut(t, "decompress")
    /\ UNCHANGED <<config, mainVars, started, transport_failures, attempt, gets, clen, total_size, hasPath, outFile>>

\* gz.read returns b'': the loop ends, the input is removed when cleanup is
\* set, gzip_decompress returns and _download returns filepath[:-3]
DecompressEnd(t) ==
    /\ tpc[t] = "decompress"
    /\ Size(outFile[t]) = Size(gzFile[t])
    /\ gzFile' = [gzFile EXCEPT ![t] = AfterDecompress(@)]
    /\ Terminate(t, "done", "none")
    /\ UNCHANGED <<config, mainVars, started, transport_failures, attempt, gets, clen, total_size, hasPath, outFile>>

Headers == {Absent} \cup {File(n) : n \in 0..MaxSize}

Next ==
    \/ AuthenticateOk
    \/ AuthenticateFail
    \/ \E text \in Texts : GetReportOk(text)
    \/ GetReportFail
    \/ NoBody
    \/ DownloadZonesFailStart
    \/ \E links \in LinkLists : DownloadZonesStart(links)
    \/ GatherRaise
    \/ GatherReturn
    \/ AExit
    \/ Teardown
    \/ \E t \in Tasks : TaskStart(t)
    \/ \E t \in Tasks : Resume(t)
    \/ \E t \in Tasks : SleepDone(t)
    \/ \E t \in Tasks : RequestError(t)
    \/ \E t \in Tasks : ResponseBadStatus(t)
    \/ \E t \in Tasks : ResponseNoDisposition(t)
    \/ \E t \in Tasks, h \in Headers : ResponseOk(t, h)
    \/ \E t \in Tasks : StreamChunk(t)
    \/ \E t \in Tasks : StreamError(t)
    \/ \E t \in Tasks : StreamEnd(t)
    \/ \E t \in Tasks : VerifyMismatch(t)
    \/ \E t \in Tasks : VerifyReturn(t)
    \/ \E t \in Tasks : ProbeFail(t)
    \/ \E t \in Tasks : ProbeOk(t)
    \/ \E t \in Tasks : DecompressChunk(t)
    \/ \E t \in Tasks : DecompressError(t)
    \/ \E t \in Tasks : DecompressRaised(t)
    \/ \E t \in Tasks : DecompressEnd(t)

Spec == Init /\ [][Next]_vars

\* One call of download_zone without a semaphore, made by a caller that is
\* inside `async with CZDS(...)`: authenticated, session open.
InitTask ==
    /\ entry = "direct"
    /\ NoReportOptions
    /\ zones = FALSE
    /\ concurrency = 1
    /\ decompress \in BOOLEAN
    /\ cleanup \in BOOLEAN
    /\ mainPc = "direct"
    /\ session = "open"
    /\ headers = "bearer"
    /\ mainExc = "none"
    /\ auth_calls = 1
    /\ requests = {}
    /\ NoTasks
    /\ semaphore = 0
    /\ waiters = <<>>
    /\ acquires = [t \in Tasks |-> 0]
    /\ releases = [t \in Tasks |-> 0]
    /\ started = 0
    /\ tpc = [t \in Tasks |-> IF t = 1 THEN "created" ELSE "none"]
    /\ attempt = [t \in Tasks |-> 0]
    /\ gets = [t \in Tasks |-> 0]
    /\ clen = [t \in Tasks |-> Absent]
    /\ total_size = [t \in Tasks |-> 0]
    /\ hasPath = [t \in Tasks |-> FALSE]
    /\ gzFile = [t \in Tasks |-> Absent]
    /\ outFile = [t \in Tasks |-> Absent]
    /\ terr = [t \in Tasks |-> "none"]
    /\ transport_failures = [t \in Tasks |-> 0]

NextTask ==
    \/ \E t \in Tasks : DirectStart(t)
    \/ \E t \in Tasks : SleepDone(t)
    \/ \E t \in Tasks : RequestError(t)
    \/ \E t \in Tasks : ResponseBadStatus(t)
    \/ \E t \in Tasks : ResponseNoDisposition(t)
    \/ \E t \in Tasks, h \in Headers : ResponseOk(t, h)
    \/ \E t \in Tasks : StreamChunk(t)
    \/ \E t \in Tasks : StreamError(t)
    \/ \E t \in Tasks : StreamEnd(t)
    \/ \E t \in Tasks : VerifyMismatch(t)
    \/ \E t \in Tasks : VerifyReturn(t)
    \/ \E t \in Tasks : ProbeFail(t)
    \/ \E t \in Tasks : ProbeOk(t)
    \/ \E t \in Tasks : DecompressChunk(t)
    \/ \E t \in Tasks : DecompressError(t)
    \/ \E t \in Tasks : DecompressRaised(t)
    \/ \E t \in Tasks : DecompressEnd(t)

SpecTask == InitTask /\ [][NextTask]_vars

TypeOK ==
    /\ concurrency \in 1..MaxConcurrency
    /\ mainPc \in {"enter", "body", "gather", "aexit", "teardown", "end", "direct"}
    /\ mainExc \in {"none", "auth", "report", "zones"}
    /\ auth_calls \in 0..1
    /\ requests \subseteq {"links", "report"}
    /\ zone_links \in LinkLists
    /\ nlinks = Len(zone_links)
    /\ content.kind \in {"none", "csv", "json"}
    /\ session \in {"open", "closed"}
    /\ dz \in {"notcalled", "running", "returned", "raised_start", "raised_task"}
    /\ semaphore \in 0..MaxConcurrency
    /\ \A t \in Tasks : /\ tpc[t] \in Holding \cup Terminal \cup {"none", "created", "waiting"}
                        /\ attempt[t] \in 0..(max_retries - 1)
                        /\ gets[t] \in 0..max_retries
                        /\ total_size[t] \in 0..MaxSize


\* ======================================================================
\* Properties
\* ======================================================================

\* C1: at every moment at most `concurrency` tasks are between acquiring and
\* releasing the semaphore of download_zone.
C1_AtMostKInDownload == Cardinality(InDownload) <= concurrency

\* C1 witness: all permits are taken and a further task is queued on the semaphore
C1_Witness ==
    /\ \E t \in Tasks : tpc[t] = "waiting"
    /\ Cardinality(InDownload) = concurrency

DownloadZonesCompleted == dz \in {"returned", "raised_start", "raised_task"}

\* C2 (as claimed): download_zones returns or raises only when every task it
\* created is terminal.
C2_CompletesOnlyWhenAllTerminal ==
    DownloadZonesCompleted => \A t \in Created : tpc[t] \in Terminal

\* C3 (as claimed): download_zones never fails because of a task; when it
\* raises, it raised before any task was started.
C3_TaskFailureNotPropagated ==
    dz \in {"raised_start", "raised_task"} => dz = "raised_start" /\ started = 0

\* a task that exhausted its retries
Exhausted(u) ==
    /\ tpc[u] = "failed"
    /\ gets[u] = max_retries
    /\ terr[u] \in {"transport", "status", "incomplete"}

\* C4 (as claimed): when a task has exhausted its retries, no other task is
\* cancelled and none fails on the closed session.
C4_SiblingsUnaffected ==
    \A u \in Created : Exhausted(u) =>
        \A t \in Created \ {u} : tpc[t] # "cancelled" /\ terr[t] # "session_closed"

FailedTask(t) == tpc[t] = "failed"

\* C5: when download_zone ends in failure, no file of the task is on disk,
\* neither the downloaded file nor the decompressed one.
C5_NoFileAfterFailure ==
    \A t \in Tasks : FailedTask(t) => gzFile[t] = Absent /\ outFile[t] = Absent

\* C5 witness: a task that had opened its destination file failed in its last
\* attempt with a transport error
C5_Witness ==
    \E t \in Tasks : FailedTask(t) /\ hasPath[t] /\ terr[t] = "transport" /\ gets[t] = max_retries

\* every iteration of the retry loop of t ended with a transport error
OnlyTransportErrors(t) == transport_failures[t] = attempt[t] + 1

\* C6: a task all of whose attempts end in a transport error makes exactly
\* max_retries attempts, fails with the transport error and leaves no file.
C6_TransportAlwaysFails ==
    \A t \in Tasks :
        (tpc[t] \in {"done", "failed"} /\ OnlyTransportErrors(t)) =>
            /\ tpc[t] = "failed"
            /\ terr[t] = "transport"
            /\ gets[t] = max_retries
            /\ attempt[t] + 1 = max_retries
            /\ gzFile[t] = Absent
            /\ outFile[t] = Absent

\* C6 witness: three transport errors, at least one of them after the
\* destination file had been opened
C6_Witness ==
    \E t \in Tasks : FailedTask(t) /\ transport_failures[t] = max_retries /\ hasPath[t]

\* the body written in the current attempt is complete: as long as the
\* declared Content-Length, when one was declared
CompleteBody(t) == clen[t] = Absent \/ total_size[t] = Size(clen[t])

\* the result file of a successful task
ResultFile(t) == IF decompress THEN outFile[t] ELSE gzFile[t]

\* attempt N of t has delivered the complete body after N-1 transport errors
DeliveredAfterTransportErrors(t) ==
    /\ tpc[t] \in {"verify", "decompress", "gz_raised"}
    /\ CompleteBody(t)
    /\ transport_failures[t] = attempt[t]

\* C7 (as claimed): when the first N-1 attempts end in transport errors and
\* attempt N delivers the complete body, the task succeeds: it does not fail.
C7_SucceedsOnceDelivered ==
    [][\A t \in Tasks : DeliveredAfterTransportErrors(t) => tpc'[t] # "failed"]_vars

\* C7 (amended): when the first N-1 attempts end in transport errors and
\* attempt N delivers the complete body (N <= max_retries), the task issues no
\* further GET; it succeeds unless decompression was requested and fails, and
\* a task that succeeded this way has its result file and has issued exactly
\* N requests, none after the success.
C7_RetryThenSuccess ==
    [][\A t \in Tasks :
        /\ (DeliveredAfterTransportErrors(t) /\ tpc'[t] # tpc[t])
           => /\ gets'[t] = transport_failures[t] + 1
              /\ gets'[t] <= max_retries
              /\ ~decompress => tpc'[t] = "done"
              /\ decompress => tpc'[t] \in {"decompress", "gz_raised", "done", "failed"}
              /\ tpc'[t] = "failed" => (decompress /\ terr'[t] = "decompress")
        /\ (tpc'[t] = "done" /\ transport_failures'[t] = attempt'[t])
           => /\ gets'[t] = transport_failures'[t] + 1
              /\ Exists(ResultFile(t)')
        /\ tpc[t] = "done" => (tpc'[t] = "done" /\ gets'[t] = gets[t])
      ]_vars

\* C7 witness: two transport errors, then success with the third request
C7_Witness ==
    \E t \in Tasks : tpc[t] = "done" /\ transport_failures[t] = 2 /\ gets[t] = 3

\* C8 (as claimed): a successful download of a response that declared a
\* Content-Length wrote exactly that many bytes, and the downloaded file,
\* while it is kept, has that size.
C8_SuccessMatchesContentLength ==
    \A t \in Tasks : (tpc[t] = "done" /\ clen[t] # Absent) =>
        /\ total_size[t] = Size(clen[t])
        /\ Exists(gzFile[t]) => Size(gzFile[t]) = Size(clen[t])

FilesOnDisk(t) == (IF Exists(gzFile[t]) THEN 1 ELSE 0) + (IF Exists(outFile[t]) THEN 1 ELSE 0)

\* C9 (as claimed): on success exactly one file of the task is on disk, the
\* decompressed one when decompression was requested, else the downloaded one.
C9_ExactlyOneFile ==
    \A t \in Tasks : tpc[t] = "done" => FilesOnDisk(t) = 1 /\ Exists(ResultFile(t))

\* C9 (amended): on success the result file is on disk; the downloaded gzip
\* file is on disk besides the decompressed one exactly when decompression
\* was requested without cleanup; without decompression no decompressed file exists.
C9_OneFileUnlessKept ==
    \A t \in Tasks : tpc[t] = "done" =>
        /\ Exists(ResultFile(t))
        /\ decompress => (Exists(gzFile[t]) <=> ~cleanup)
        /\ ~decompress => ~Exists(outFile[t])
        /\ FilesOnDisk(t) = IF decompress /\ ~cleanup THEN 2 ELSE 1

\* C9 witness: success with decompression and the original kept
C9_Witness ==
    \E t \in Tasks : tpc[t] = "done" /\ decompress /\ ~cleanup /\ FilesOnDisk(t) = 2

\* C10: gzip_decompress removes its input only in the step that follows the
\* complete output, and whenever it raises, the output is gone and the input
\* still exists.
C10_DecompressSafety ==
    [][\A t \in Tasks :
        /\ (tpc[t] = "decompress" /\ ~Exists(gzFile'[t]))
           => /\ Size(outFile[t]) = Size(gzFile[t])
              /\ outFile'[t] = outFile[t]
              /\ tpc'[t] = "done"
        /\ tpc'[t] = "gz_raised" => (~Exists(outFile'[t]) /\ gzFile'[t] = gzFile[t] /\ Exists(gzFile'[t]))
      ]_vars

\* C10 witness: gzip_decompress has raised on a non-empty input
C10_Witness ==
    \E t \in Tasks : tpc[t] = "gz_raised" /\ Exists(gzFile[t]) /\ Size(gzFile[t]) > 0

\* the outcomes of a task: it returned a path, or it raised
Outcomes == {"done", "failed"}

\* C11 (as claimed): every task download_zones created reaches a terminal
\* outcome: when the run is over, each of them has returned or has failed.
C11_EveryTaskReachesOutcome ==
    mainPc = "end" => \A t \in Created : tpc[t] \in Outcomes

\* the URLs of the tasks that have begun to run, in the order they began
DispatchOrder == SubSeq(zone_links, 1, started)

IsSorted(l) == \A i, j \in 1..Len(l) : i < j => l[i] < l[j]

\* C12 (as claimed): the tasks are dispatched in the lexicographic order of
\* their URLs, and with concurrency 1 a download is issued only when the
\* downloads of all smaller URLs are over.
C12_DispatchedInUrlOrder ==
    /\ IsSorted(DispatchOrder)
    /\ concurrency = 1 =>
          \A s, t \in Created :
              (zone_links[s] < zone_links[t] /\ gets[t] > 0) => tpc[s] \in Terminal

\* C13 (as claimed): when download_zones has completed, the value its caller
\* holds contains, for every URL, the outcome of the task of that URL.
C13_CallerObtainsOutcomes ==
    dz \in {"returned", "raised_task"} =>
        \A t \in Created :
            \E o \in dz_value.outcomes : o.url = zone_links[t] /\ o.outcome = tpc[t]

\* some request other than the authentication was issued
RequestIssued == requests # {} \/ \E t \in Tasks : gets[t] > 0

\* C14: authenticate is called once, before anything else; a request for the
\* links, a zone or the report is issued only with the bearer header set by a
\* successful authenticate; when authenticate fails the run ends with the
\* error and nothing was requested, listed or downloaded.
C14_AuthenticateFirst ==
    /\ auth_calls <= 1
    /\ mainPc # "enter" => auth_calls = 1
    /\ (RequestIssued \/ dz # "notcalled" \/ content # NoContent) =>
          (headers = "bearer" /\ auth_calls = 1 /\ mainExc # "auth")
    /\ headers = "none" => (mainPc = "enter" \/ mainExc = "auth")
    /\ mainExc = "auth" =>
          /\ mainPc = "end"
          /\ headers = "none"
          /\ ~RequestIssued
          /\ dz = "notcalled"
          /\ content = NoContent
          /\ \A t \in Tasks : tpc[t] = "none"

\* C14 witness: after the authentication the links were requested and the GET
\* of a zone was issued
C14_Witness ==
    /\ auth_calls = 1
    /\ "links" \in requests
    /\ \E t \in Tasks : gets[t] > 0

\* get_report has returned a scrubbed report
ScrubbedReport == content.kind # "none" /\ scrub

\* C15 (as claimed): the scrubbed report, as csv text or as the keys and
\* values of the json rows, nowhere contains the username, and the csv text
\* contains the token when the input contained the username.
C15_NoUsernameInReport ==
    ScrubbedReport =>
        /\ content.kind = "csv" =>
              /\ ~Contains(content.text, username)
              /\ Contains(report_text, username) => Contains(content.text, Token)
        /\ content.kind = "json" =>
              \A i \in 1..Len(content.rows) :
                  \A k \in DOMAIN content.rows[i] :
                      ~Contains(k, username) /\ ~Contains(content.rows[i][k], username)

\* a header name lower-cased, its spaces replaced by underscores
LowerChar(c) == IF c = "N" THEN "n" ELSE IF c = " " THEN "_" ELSE c
Normalised(name) == [i \in 1..Len(name) |-> LowerChar(name[i])]

\* the rows the claim describes: one mapping per data row, fields by comma
\* split, paired by position with the normalised header names
NormalisedRows(text) ==
    LET rows == Rows(text)
        header == [i \in 1..Len(rows[1]) |-> Normalised(rows[1][i])]
    IN [i \in 1..(Len(rows) - 1) |-> DictZip(header, rows[i + 1])]

\* C16 (as claimed): the json form of the report is one mapping per data row,
\* keyed by the lower-cased, underscore-joined header names.
C16_JsonKeysNormalised ==
    content.kind = "json" => content.rows = NormalisedRows(Scrubbed(report_text))

\* C17 (as claimed): while a task waits in the retry delay, and while the
\* request of its next attempt is out, no file of the task is on disk.
C17_NoPartialFileAcrossRetry ==
    \A t \in Tasks : tpc[t] \in {"sleep", "request"} => ~Exists(gzFile[t])

\* the stream of the attempt has ended and the bytes written differ from the
\* declared Content-Length
DeclaredSizeMissed(t) ==
    tpc[t] = "verify" /\ clen[t] # Absent /\ total_size[t] # Size(clen[t])

\* C18 (as claimed): the step that follows a stream which ended with a size
\* other than the declared one removes the file and goes to the retry delay
\* when attempts remain, to the failure otherwise, issuing no request; and
\* the verification is entered only from the end of the stream.
C18_MismatchDeletesThenRetries ==
    [][\A t \in Tasks :
        /\ (DeclaredSizeMissed(t) /\ tpc'[t] # tpc[t])
           => /\ ~Exists(gzFile'[t])
              /\ gets'[t] = gets[t]
              /\ tpc'[t] = IF AttemptsLeft(t) THEN "sleep" ELSE "failed"
        /\ (tpc'[t] = "verify" /\ tpc[t] # "verify")
           => /\ tpc[t] = "streaming"
              /\ total_size'[t] = total_size[t]
              /\ gzFile'[t] = gzFile[t]
      ]_vars

\* C19: a response without Content-Disposition makes the task fail in that
\* very step: no retry delay, no further request ever, no file created by the
\* attempt and none left.
C19_MissingDispositionNotRetried ==
    [][\A t \in Tasks :
        /\ ResponseNoDisposition(t)
           => /\ tpc'[t] = "failed"
              /\ terr'[t] = "protocol"
              /\ gets'[t] = gets[t]
              /\ attempt'[t] = attempt[t]
              /\ ~Exists(gzFile'[t])
              /\ outFile'[t] = outFile[t]
        /\ tpc[t] = "failed"
           => (tpc'[t] = "failed" /\ gets'[t] = gets[t] /\ gzFile'[t] = gzFile[t])
      ]_vars

\* C19 witness: the task failed on a missing Content-Disposition while
\* attempts remained, after an earlier attempt had written a file
C19_Witness ==
    \E t \in Tasks :
        /\ tpc[t] = "failed"
        /\ terr[t] = "protocol"
        /\ AttemptsLeft(t)
        /\ hasPath[t]

\* the download of t passed the size verification and decompression is due
VerifiedForDecompress(t) == tpc[t] = "verify" /\ ~SizeMismatch(t) /\ decompress

\* C20: decompression starts only on a download that passed the size
\* verification; when it fails, at the probe or inside gzip_decompress, the
\* task fails without a retry delay and without any further request, and
\* neither the compressed nor the decompressed file is left.
C20_DecompressFailureNotRetried ==
    [][\A t \in Tasks :
        /\ (tpc'[t] \in {"decompress", "gz_raised"} /\ tpc[t] \notin {"decompress", "gz_raised"})
           => VerifiedForDecompress(t)
        /\ (terr'[t] = "decompress" /\ terr[t] # "decompress")
           => /\ VerifiedForDecompress(t) \/ tpc[t] = "gz_raised"
              /\ tpc'[t] = "failed"
        /\ (tpc[t] \in {"decompress", "gz_raised"} \/ VerifiedForDecompress(t))
           => /\ gets'[t] = gets[t]
              /\ attempt'[t] = attempt[t]
              /\ tpc'[t] \in {"verify", "decompress", "gz_raised", "done", "failed"}
        /\ tpc[t] = "gz_raised" => tpc'[t] \in {"gz_raised", "failed"}
        /\ (tpc'[t] = "failed" /\ terr'[t] = "decompress")
           => (~Exists(gzFile'[t]) /\ ~Exists(outFile'[t]) /\ gets'[t] = gets[t])
      ]_vars

\* C20 witness: the first attempt downloaded the file, the decompression
\* inside gzip_decompress failed, and the task has failed with two attempts left
C20_Witness ==
    \E t \in Tasks :
        /\ tpc[t] = "failed"
        /\ terr[t] = "decompress"
        /\ gets[t] = 1
        /\ attempt[t] + 2 < max_retries
        /\ total_size[t] > 0

\* download_zones has created its semaphore
SemaphoreCreated == dz \in {"running", "returned", "raised_task"}

\* C21: free permits plus tasks holding a permit is always the concurrency;
\* a task obtains a permit once, before its first request, and gives it back
\* once, when it ends (by return, by raise or cancelled inside); when every
\* task is terminal all permits are free.
C21_SlotAccounting ==
    SemaphoreCreated =>
        /\ semaphore >= 0
        /\ semaphore + Cardinality(InDownload) = concurrency
        /\ \A t \in Tasks :
              /\ releases[t] <= acquires[t]
              /\ acquires[t] <= 1
              /\ gets[t] > 0 => acquires[t] = 1
              /\ tpc[t] \in Holding => (acquires[t] = 1 /\ releases[t] = 0)
              /\ tpc[t] \in {"none", "created", "waiting"} => acquires[t] = 0
              /\ tpc[t] \in Outcomes => (acquires[t] = 1 /\ releases[t] = 1)
              /\ tpc[t] = "cancelled" => releases[t] = acquires[t]
        /\ (\A t \in Created : tpc[t] \in Terminal) => (semaphore = concurrency /\ waiters = <<>>)

\* C21 witness: with concurrency 1, a task has ended and given its permit
\* back, and the task that had queued behind it holds the permit
C21_Witness ==
    /\ SemaphoreCreated
    /\ semaphore = 0
    /\ \E t, u \in Tasks : /\ tpc[t] \in Outcomes
                           /\ releases[t] = 1
                           /\ tpc[u] \in Holding
                           /\ acquires[u] = 1
                           /\ concurrency = 1

\* C22 (as claimed): a task that was cancelled has left no file on disk.
C22_CancelledLeavesNoFile ==
    \A t \in Tasks : tpc[t] = "cancelled" => (~Exists(gzFile[t]) /\ ~Exists(outFile[t]))

\* C23: a call issues at most max_retries GET requests; every request but
\* the first is issued by the step that ends a retry delay, and a retry delay
\* is entered only by an attempt that failed with attempts remaining, so one
\* delay separates two attempts and none follows the last; a non-200 status
\* with attempts remaining leads to the retry delay.
C23_BoundedAttemptsOneDelay ==
    [][\A t \in Tasks :
        /\ gets'[t] <= max_retries
        /\ (gets[t] > 0 => gets[t] = attempt[t] + 1)
        /\ gets'[t] # gets[t]
           => /\ gets'[t] = gets[t] + 1
              /\ tpc[t] = "sleep" \/ gets[t] = 0
              /\ tpc'[t] = "request"
        /\ (tpc'[t] = "sleep" /\ tpc[t] # "sleep")
           => /\ AttemptsLeft(t)
              /\ tpc[t] \in {"request", "streaming", "verify"}
              /\ gets'[t] = gets[t]
              /\ attempt'[t] = attempt[t]
        /\ (tpc[t] = "sleep" /\ tpc'[t] # "sleep")
           => /\ tpc'[t] = "request"
              /\ attempt'[t] = attempt[t] + 1
        /\ (ResponseBadStatus(t) /\ AttemptsLeft(t)) => tpc'[t] = "sleep"
        /\ (ResponseBadStatus(t) /\ ~AttemptsLeft(t)) => (tpc'[t] = "failed" /\ terr'[t] = "status")
      ]_vars

\* C23 witness: three attempts, one of them ended by a transport error, the
\* last one by a size mismatch
C23_Witness ==
    \E t \in Tasks :
        /\ tpc[t] = "failed"
        /\ gets[t] = max_retries
        /\ terr[t] = "incomplete"
        /\ transport_failures[t] = 1

\* some task gives its permit back in this step
SomeTaskEnds == \E u \in Tasks : tpc[u] \in Holding /\ tpc'[u] \in Terminal

\* C24: a task that holds a permit keeps it until it is terminal, through
\* every retry and retry delay; entering the retry delay frees nothing; a
\* queued task waits while no permit is free and gets one only in a step in
\* which a running task ends.
C24_SlotHeldAcrossRetries ==
    [][\A t \in Tasks :
        /\ tpc[t] \in Holding => tpc'[t] \in Holding \cup Terminal
        /\ (tpc[t] \in Holding /\ tpc'[t] \in Holding) => releases'[t] = releases[t]
        /\ (tpc'[t] = "sleep" /\ tpc[t] # "sleep")
           => (semaphore' = semaphore /\ waiters' = waiters /\ releases' = releases)
        /\ tpc[t] = "waiting" => semaphore = 0
        /\ (tpc[t] = "waiting" /\ tpc'[t] # "waiting")
           => /\ tpc'[t] \in {"acquired", "cancelled"}
              /\ SomeTaskEnds
        /\ (SemaphoreCreated /\ (semaphore' > semaphore \/ Len(waiters') < Len(waiters)))
           => SomeTaskEnds
      ]_vars

\* C24 witness: a task is in its retry delay while another one is queued
C24_Witness ==
    \E t, u \in Tasks : tpc[t] = "sleep" /\ tpc[u] = "waiting"

\* main() has left the `async with CZDS(...)` statement
LeftAsyncWith == mainPc \in {"teardown", "end"}

\* C25 (as claimed): once the `async with` statement is left, by a normal
\* end of the body, by an exception in the body or by the failure of
\* authenticate in __aenter__, the session is closed.
C25_SessionClosedOnLeave == LeftAsyncWith => session = "closed"

\* session.get raises on a closed session: no GET is issued after close()
NoRequestAfterClose ==
    [][session = "closed" => (gets' = gets /\ requests' = requests)]_vars

====
